---- MODULE Spec2Model ----
(***************************************************************************)
(* Model of src/SpiTransceiver.py: the SpiTransceiver high level analyzer. *)
(* decode(frame) is called once per input frame, in arrival order, and     *)
(* returns either nothing or one AnalyzerFrame.                            *)
(***************************************************************************)
EXTENDS Integers, Sequences, FiniteSets, TLC

VARIABLES
    frames,                  \* self.frames
    spi_enable,              \* self.spi_enable
    transaction_start_time,  \* self.transaction_start_time
    transaction_end_time,    \* self.transaction_end_time
    call,                    \* the argument of the latest decode call (None before the first)
    ret,                     \* what the latest decode call returned (None: nothing)
    raised,                  \* the exception the latest decode call raised ("" : none)
    printed,                 \* the line the latest decode call printed ("" : none)
    h_open,                  \* history: an enable arrived and no disable since
    h_bytes,                 \* history: the result frames that arrived since that enable
    h_reopen,                \* history: the latest enable arrived on an open transaction with bytes
    n_trigger,               \* history: number of disable and unrecognized frames so far
    n_emitted                \* history: number of AnalyzerFrames returned so far

self == <<frames, spi_enable, transaction_start_time, transaction_end_time>>
vars == <<frames, spi_enable, transaction_start_time, transaction_end_time,
          call, ret, raised, printed, h_open, h_bytes, h_reopen, n_trigger, n_emitted>>

(***************************************************************************)
(* Bounds of the explored input space.                                     *)
(***************************************************************************)
MaxFrames == 2       \* result frames accumulated in one transaction
MaxTime == 2         \* frames start at 1..MaxTime
MaxPayloadLen == 2   \* longest mosi/miso byte string of one result frame
MaxTrigger == 3      \* disable and unrecognized frames in one run

\* Python's None, and a present value v, as a sequence of length 0 or 1.
None == <<>>
Some(v) == <<v>>

Byte == 0..255
\* Bytes used outside the opcode position: two table keys and one non-key.
SampleBytes == {0, 128, 1}
MisoBytes == {0, 165}
\* Frame types of the input analyzer that decode has no branch for.
OtherTypes == {"trigger", "start"}

COMMANDS ==
    (137 :> "Calibrate") @@ (152 :> "CalibrateImage") @@ (8 :> "CfgDioIrq") @@
    (7 :> "ClrError") @@ (2 :> "ClrIrqStatus") @@ (23 :> "GetError") @@
    (18 :> "GetIrqStatus") @@ (20 :> "GetPacketStatus") @@ (17 :> "GetPacketType") @@
    (21 :> "GetRssiInst") @@ (19 :> "GetRxBufferStatus") @@ (16 :> "GetStats") @@
    (192 :> "GetStatus") @@ (30 :> "ReadBuffer") @@ (29 :> "RegRegister") @@
    (0 :> "ResetStats") @@ (143 :> "SetBufferBaseAddress") @@ (197 :> "SetCad") @@
    (136 :> "SetCadParams") @@ (193 :> "SetFs") @@ (160 :> "SetLoRaSymbTimeout") @@
    (139 :> "SetModulationParams") @@ (140 :> "SetPacketParams") @@
    (138 :> "SetPacketType") @@ (149 :> "SetPaConfig") @@ (150 :> "SetRegulatorMode") @@
    (134 :> "SetRfFrequency") @@ (130 :> "SetRx") @@ (148 :> "SetRxDutyCycle") @@
    (132 :> "SetSleep") @@ (128 :> "SetStandby") @@ (159 :> "SetStopRxTimerOnPreamble") @@
    (151 :> "SetTcxoMode") @@ (131 :> "SetTx") @@ (210 :> "SetTxContinuousPreamble") @@
    (209 :> "SetTxContinuousWave") @@ (142 :> "SetTxParams") @@
    (147 :> "SetTxRxFallbackMode") @@ (14 :> "WriteBuffer") @@ (13 :> "WriteRegister")

\* a lookup that treats key 0 as no key
Get_falsy_key(d, key, default) ==
    IF key # 0 /\ key \in DOMAIN d THEN d[key] ELSE default

\* dict.get(key, default)
Get(d, key, default) == IF key \in DOMAIN d THEN d[key] ELSE default

\* str.format of a bool and of an optional timestamp.
FormatBool(b) == IF b THEN "True" ELSE "False"
FormatTime(t) == IF t = None THEN "None" ELSE ToString(t[1])

\* AnalyzerFrame(type, start_time, end_time, data)
AnalyzerFrame(type, start_time, end_time, data) ==
    [type |-> type, start_time |-> start_time, end_time |-> end_time, data |-> data]

\* The data of a frame that carries no byte strings.
NoData == [mosi |-> <<>>, miso |-> <<>>]

(***************************************************************************)
(* Input frames.                                                           *)
(***************************************************************************)
Times == 1..MaxTime
\* <<start_time, end_time>> of an input frame
Spans == {<<t, t + 1>> : t \in Times}

Strings(S, n) == [1..n -> S]

PlainFrames(types) ==
    {AnalyzerFrame(t, sp[1], sp[2], NoData) : t \in types, sp \in Spans}

\* result frames with one byte in each direction
ResultFrames(mosiBytes, misoBytes, spans) ==
    {AnalyzerFrame("result", sp[1], sp[2], [mosi |-> <<b>>, miso |-> <<m>>]) :
        sp \in spans, b \in mosiBytes, m \in misoBytes}

\* result frames whose byte strings have any length up to MaxPayloadLen
ResultFramesAnyLen ==
    UNION {{AnalyzerFrame("result", sp[1], sp[2], [mosi |-> mo, miso |-> mi]) :
                sp \in Spans, mo \in Strings({128, 1}, n), mi \in Strings({165}, n)} :
           n \in 0..MaxPayloadLen}

(***************************************************************************)
(* The methods of SpiTransceiver.                                          *)
(***************************************************************************)
handle_enable_keeps_frames(frame) ==
    /\ spi_enable' = TRUE
    /\ UNCHANGED <<frames, transaction_start_time, transaction_end_time>>
    /\ ret' = None
    /\ raised' = ""
    /\ printed' = ""

handle_enable_keeps_start(frame) ==
    /\ frames' = <<>>
    /\ spi_enable' = TRUE
    /\ UNCHANGED transaction_start_time
    /\ transaction_end_time' = None
    /\ ret' = None
    /\ raised' = ""
    /\ printed' = ""

handle_enable(frame) ==
    /\ frames' = <<>>
    /\ spi_enable' = TRUE
    /\ transaction_start_time' = None
    /\ transaction_end_time' = None
    /\ ret' = None
    /\ raised' = ""
    /\ printed' = ""

reset_keeps_frames ==
    /\ spi_enable' = FALSE
    /\ transaction_start_time' = None
    /\ transaction_end_time' = None
    /\ UNCHANGED frames

reset ==
    /\ frames' = <<>>
    /\ spi_enable' = FALSE
    /\ transaction_start_time' = None
    /\ transaction_end_time' = None

is_valid_transaction_enable_only == spi_enable

is_valid_transaction == spi_enable /\ (transaction_start_time # None)

handle_result_overwrites_start(frame) ==
    /\ IF spi_enable
       THEN /\ transaction_start_time' = Some(frame.start_time)
            /\ transaction_end_time' = Some(frame.end_time)
            /\ frames' = Append(frames, frame)
       ELSE UNCHANGED <<transaction_start_time, transaction_end_time, frames>>
    /\ UNCHANGED spi_enable
    /\ ret' = None
    /\ raised' = ""
    /\ printed' = ""

handle_result_unguarded(frame) ==
    /\ transaction_start_time' =
          IF transaction_start_time = None
          THEN Some(frame.start_time) ELSE transaction_start_time
    /\ transaction_end_time' = Some(frame.end_time)
    /\ frames' = Append(frames, frame)
    /\ UNCHANGED spi_enable
    /\ ret' = None
    /\ raised' = ""
    /\ printed' = ""

handle_result_keeps_end(frame) ==
    /\ IF spi_enable
       THEN /\ transaction_start_time' =
                  IF transaction_start_time = None
                  THEN Some(frame.start_time) ELSE transaction_start_time
            /\ transaction_end_time' =
                  IF transaction_end_time = None
                  THEN Some(frame.end_time) ELSE transaction_end_time
            /\ frames' = Append(frames, frame)
       ELSE UNCHANGED <<transaction_start_time, transaction_end_time, frames>>
    /\ UNCHANGED spi_enable
    /\ ret' = None
    /\ raised' = ""
    /\ printed' = ""

handle_result_prepends(frame) ==
    /\ IF spi_enable
       THEN /\ transaction_start_time' =
                  IF transaction_start_time = None
                  THEN Some(frame.start_time) ELSE transaction_start_time
            /\ transaction_end_time' = Some(frame.end_time)
            /\ frames' = <<frame>> \o frames
       ELSE UNCHANGED <<transaction_start_time, transaction_end_time, frames>>
    /\ UNCHANGED spi_enable
    /\ ret' = None
    /\ raised' = ""
    /\ printed' = ""

handle_result(frame) ==
    /\ IF spi_enable
       THEN /\ transaction_start_time' =
                  IF transaction_start_time = None
                  THEN Some(frame.start_time) ELSE transaction_start_time
            /\ transaction_end_time' = Some(frame.end_time)
            /\ frames' = Append(frames, frame)
       ELSE UNCHANGED <<transaction_start_time, transaction_end_time, frames>>
    /\ UNCHANGED spi_enable
    /\ ret' = None
    /\ raised' = ""
    /\ printed' = ""

RECURSIVE Concat(_, _)
\* the loop of get_frame_data over self.frames for one direction
Concat(fs, dir) ==
    IF fs = <<>> THEN <<>> ELSE Head(fs).data[dir] \o Concat(Tail(fs), dir)

get_frame_data_swapped ==
    [miso |-> Concat(frames, "mosi"), mosi |-> Concat(frames, "miso")]

get_frame_data == [miso |-> Concat(frames, "miso"), mosi |-> Concat(frames, "mosi")]

InvalidMessage_after_reset ==
    <<"Invalid SPI transaction (spi_enable=", FormatBool(FALSE),
      ", transaction_start_time=", FormatTime(None), ")">>

InvalidMessage ==
    <<"Invalid SPI transaction (spi_enable=", FormatBool(spi_enable),
      ", transaction_start_time=", FormatTime(transaction_start_time), ")">>

handle_disable_last_byte(frame) ==
    IF is_valid_transaction
    THEN LET transaction == get_frame_data IN
         IF transaction.mosi = <<>>
         THEN /\ raised' = "IndexError"
              /\ printed' = ""
              /\ ret' = None
              /\ UNCHANGED self
         ELSE LET cmd == transaction.mosi[Len(transaction.mosi)] IN
              /\ ret' = Some(AnalyzerFrame("command",
                                           transaction_start_time[1],
                                           transaction_end_time[1],
                                           [cmd |-> Get(COMMANDS, cmd, "Unknown")]))
              /\ raised' = ""
              /\ printed' = ""
              /\ reset
    ELSE /\ ret' = Some(AnalyzerFrame("error", frame.start_time, frame.end_time,
                                      [error_info |-> InvalidMessage]))
         /\ raised' = ""
         /\ printed' = ""
         /\ reset

handle_disable(frame) ==
    IF is_valid_transaction
    THEN LET transaction == get_frame_data IN
         IF transaction.mosi = <<>>
         THEN \* transaction["mosi"][0] raises; reset() is not reached
              /\ raised' = "IndexError"
              /\ printed' = ""
              /\ ret' = None
              /\ UNCHANGED self
         ELSE LET cmd == transaction.mosi[1] IN
              /\ ret' = Some(AnalyzerFrame("command",
                                           transaction_start_time[1],
                                           transaction_end_time[1],
                                           [cmd |-> Get(COMMANDS, cmd, "Unknown")]))
              /\ raised' = ""
              /\ printed' = ""
              /\ reset
    ELSE /\ ret' = Some(AnalyzerFrame("error", frame.start_time, frame.end_time,
                                      [error_info |-> InvalidMessage]))
         /\ raised' = ""
         /\ printed' = ""
         /\ reset

handle_error_returns(frame) ==
    /\ ret' = Some(AnalyzerFrame("error", frame.start_time, frame.end_time,
                                 [error_info |-> <<"Received 'error' type from input analyzer">>]))
    /\ raised' = ""
    /\ printed' = ""
    /\ UNCHANGED self

handle_error_resets(frame) ==
    /\ ret' = None
    /\ raised' = ""
    /\ printed' = "Received 'error' type from input analyzer"
    /\ reset

handle_error_disables(frame) ==
    /\ ret' = None
    /\ raised' = ""
    /\ printed' = "Received 'error' type from input analyzer"
    /\ spi_enable' = FALSE
    /\ UNCHANGED <<frames, transaction_start_time, transaction_end_time>>

handle_error(frame) ==
    /\ ret' = None
    /\ raised' = ""
    /\ printed' = "Received 'error' type from input analyzer"
    /\ UNCHANGED self

UnexpectedMessage(frame) ==
    <<"Unexpected frame type from input analyzer: ", frame.type>>

handle_other_resets(frame) ==
    /\ ret' = Some(AnalyzerFrame("error", frame.start_time, frame.end_time,
                                 [error_info |-> UnexpectedMessage(frame)]))
    /\ raised' = ""
    /\ printed' = ""
    /\ reset

\* the else branch of decode
handle_other(frame) ==
    /\ ret' = Some(AnalyzerFrame("error", frame.start_time, frame.end_time,
                                 [error_info |-> UnexpectedMessage(frame)]))
    /\ raised' = ""
    /\ printed' = ""
    /\ UNCHANGED self

\* History of the input stream and of the output, as an observer of decode
\* would record it.
Observe(frame) ==
    /\ call' = Some(frame)
    /\ h_open' = IF frame.type = "enable" THEN TRUE
                 ELSE IF frame.type = "disable" THEN FALSE ELSE h_open
    /\ h_bytes' = IF frame.type \in {"enable", "disable"} THEN <<>>
                  ELSE IF frame.type = "result" /\ h_open THEN Append(h_bytes, frame)
                  ELSE h_bytes
    /\ h_reopen' = IF frame.type = "enable" THEN h_open /\ h_bytes # <<>> ELSE h_reopen
    /\ n_trigger' = IF frame.type \in {"enable", "result", "error"}
                    THEN n_trigger ELSE n_trigger + 1
    /\ n_emitted' = IF ret' = None THEN n_emitted ELSE n_emitted + 1

decode(frame) ==
    /\ IF frame.type = "enable" THEN handle_enable(frame)
       ELSE IF frame.type = "result" THEN handle_result(frame)
       ELSE IF frame.type = "disable" THEN handle_disable(frame)
       ELSE IF frame.type = "error" THEN handle_error(frame)
       ELSE handle_other(frame)
    /\ Observe(frame)

(***************************************************************************)
(* One action per kind of input frame.                                     *)
(***************************************************************************)
Init ==
    /\ frames = <<>>
    /\ spi_enable = FALSE
    /\ transaction_start_time = None
    /\ transaction_end_time = None
    /\ call = None
    /\ ret = None
    /\ raised = ""
    /\ printed = ""
    /\ h_open = FALSE
    /\ h_bytes = <<>>
    /\ h_reopen = FALSE
    /\ n_trigger = 0
    /\ n_emitted = 0

SessionOpen == \E f \in PlainFrames({"enable"}) : decode(f)

ByteTransfer ==
    /\ Len(h_bytes) < MaxFrames
    /\ Len(frames) < MaxFrames
    /\ \E f \in ResultFrames(SampleBytes, MisoBytes, Spans) : decode(f)

\* Every byte value is tried as the first byte of a transaction; the frames
\* of this action all carry the same timestamps and miso byte.
ByteTransferOpcode ==
    /\ Len(h_bytes) < MaxFrames
    /\ Len(frames) < MaxFrames
    /\ \E f \in ResultFrames(IF h_open /\ h_bytes = <<>> THEN Byte ELSE SampleBytes,
                              {0}, {<<1, 2>>}) :
           decode(f)

ByteTransferAnyLen ==
    /\ Len(h_bytes) < MaxFrames
    /\ Len(frames) < MaxFrames
    /\ \E f \in ResultFramesAnyLen : decode(f)

SessionClose ==
    /\ n_trigger < MaxTrigger
    /\ \E f \in PlainFrames({"disable"}) : decode(f)

MalformedInput == \E f \in PlainFrames({"error"}) : decode(f)

Unrecognized ==
    /\ n_trigger < MaxTrigger
    /\ \E f \in PlainFrames(OtherTypes) : decode(f)

Next ==
    \/ SessionOpen
    \/ ByteTransfer
    \/ SessionClose
    \/ MalformedInput
    \/ Unrecognized

Spec == Init /\ [][Next]_vars

\* The same program fed result frames whose byte strings may be empty or long.
NextAnyLen ==
    \/ SessionOpen
    \/ ByteTransferAnyLen
    \/ SessionClose
    \/ MalformedInput
    \/ Unrecognized

SpecAnyLen == Init /\ [][NextAnyLen]_vars

\* The same program with every opcode 0..255 in the first result frame.
NextOpcode ==
    \/ SessionOpen
    \/ ByteTransferOpcode
    \/ SessionClose
    \/ MalformedInput
    \/ Unrecognized

SpecOpcode == Init /\ [][NextOpcode]_vars

TypeOK ==
    /\ spi_enable \in BOOLEAN
    /\ Len(frames) <= MaxFrames
    /\ raised \in {"", "IndexError"}

(***************************************************************************)
(* Vocabulary of the properties.                                           *)
(***************************************************************************)
\* the latest decode call was given a frame of type t
Called(t) == call # None /\ call[1].type = t
\* the latest decode call returned an AnalyzerFrame of type t
Returned(t) == ret # None /\ ret[1].type = t
\* the latest decode call was given a frame of a type decode has no branch for
CalledOther ==
    call # None /\ call[1].type \notin {"enable", "result", "disable", "error"}
\* the message msg (a sequence of text pieces) contains the piece tok
Contains(msg, tok) == \E i \in DOMAIN msg : msg[i] = tok

\* C1: every decode call returns one AnalyzerFrame when its frame is a disable
\* or of an unrecognized type and returns nothing when it is an enable, result
\* or error frame; so the number of AnalyzerFrames returned so far equals the
\* number of disable and unrecognized frames received so far.
C1_OneResultPerCloseOrUnrecognized ==
    /\ n_emitted = n_trigger
    /\ call # None => ((ret # None) <=> (Called("disable") \/ CalledOther))

C1_Witness ==
    /\ n_emitted = 2
    /\ Called("disable")
    /\ Returned("command")

\* C2: a decode call on a disable frame returns a command frame exactly when an
\* enable arrived with no disable since and at least one result frame arrived
\* since that enable; otherwise it returns an error frame.
C2_CommandIffOpenWithBytes ==
    [][Called("disable")' =>
          IF h_open /\ h_bytes # <<>>
          THEN Returned("command")' ELSE Returned("error")']_vars

C2_Witness ==
    /\ Called("disable")
    /\ Returned("error")
    /\ Contains(ret[1].data.error_info, "True")

\* C3: after any earlier frames, an enable followed by one or more result frames
\* and a disable returns a command frame named by the COMMANDS entry of the mosi
\* byte of the first of those result frames, or "Unknown" when that byte is no
\* key of COMMANDS; checked with every byte 0..255 as that first byte.
C3_NameOfFirstMosiByte ==
    [][(Called("disable")' /\ h_open /\ h_bytes # <<>>) =>
          /\ Returned("command")'
          /\ LET opcode == h_bytes[1].data.mosi[1] IN
             ret'[1].data.cmd =
                 IF opcode \in DOMAIN COMMANDS THEN COMMANDS[opcode] ELSE "Unknown"]_vars

C3_Witness ==
    /\ Called("disable")
    /\ Returned("command")
    /\ ret[1].data.cmd = "Unknown"
    /\ n_emitted > 1

\* C4: a command frame returned for a disable carries the start_time of the
\* first result frame and the end_time of the last result frame received since
\* the latest enable, whatever the timestamps of the disable frame are.
C4_CommandTimesFromBytes ==
    [][(Called("disable")' /\ Returned("command")') =>
          /\ h_bytes # <<>>
          /\ ret'[1].start_time = h_bytes[1].start_time
          /\ ret'[1].end_time = h_bytes[Len(h_bytes)].end_time]_vars

C4_Witness ==
    /\ Called("disable")
    /\ Returned("command")
    /\ ret[1].start_time # call[1].start_time
    /\ ret[1].end_time # call[1].end_time

\* C5: an error frame returned for a disable carries the start_time and
\* end_time of that disable frame, and its message shows spi_enable and
\* transaction_start_time as they were before reset ran.
C5_ErrorTimesAndMessageFromClose ==
    [][(Called("disable")' /\ Returned("error")') =>
          /\ ret'[1].start_time = call'[1].start_time
          /\ ret'[1].end_time = call'[1].end_time
          /\ Contains(ret'[1].data.error_info, "True") <=> spi_enable
          /\ Contains(ret'[1].data.error_info, "False") <=> ~spi_enable
          /\ Contains(ret'[1].data.error_info, "None") <=> (transaction_start_time = None)]_vars

C5_Witness ==
    /\ Called("disable")
    /\ Returned("error")
    /\ h_reopen
    /\ Contains(ret[1].data.error_info, "True")
    /\ ret[1].start_time = 2

\* the Session fields after reset
Idle ==
    /\ spi_enable = FALSE
    /\ transaction_start_time = None
    /\ transaction_end_time = None
    /\ frames = <<>>

\* C6: after every decode call on a disable frame, whether it returned a
\* command or an error frame, spi_enable is False, both transaction times are
\* None and frames is empty.
C6_IdleAfterClose == Called("disable") => Idle

C6_Witness ==
    /\ Called("disable")
    /\ Returned("command")
    /\ n_emitted = 2
    /\ Idle

\* C7: a decode call on a result frame while no transaction is open (no enable
\* yet, or none since the latest disable) returns nothing and leaves frames,
\* spi_enable and both transaction times unchanged.
C7_ByteOutsideSessionDropped ==
    [][(Called("result")' /\ ~h_open) => (ret' = None /\ UNCHANGED self)]_vars

C7_Witness ==
    /\ Called("result")
    /\ ~h_open
    /\ n_emitted > 0
    /\ Idle

\* C8: a decode call on an enable frame, in any state, returns nothing and
\* leaves spi_enable True, both transaction times None and frames empty; so the
\* frame returned by the next disable is computed from the result frames that
\* arrived after the latest enable only, never from those of a transaction that
\* was re-opened before it was closed.
C8_EnableStartsFresh ==
    /\ [](Called("enable") =>
             /\ ret = None
             /\ spi_enable = TRUE
             /\ transaction_start_time = None
             /\ transaction_end_time = None
             /\ frames = <<>>)
    /\ [][(Called("disable")' /\ h_open) =>
             IF h_bytes = <<>>
             THEN Returned("error")'
             ELSE LET opcode == h_bytes[1].data.mosi[1] IN
                  ret' = Some(AnalyzerFrame("command",
                                            h_bytes[1].start_time,
                                            h_bytes[Len(h_bytes)].end_time,
                                            [cmd |-> Get(COMMANDS, opcode, "Unknown")]))]_vars

C8_Witness ==
    /\ Called("disable")
    /\ Returned("command")
    /\ h_reopen

\* C9: a decode call on a frame whose type is none of enable, result, disable
\* and error returns an error frame whose message contains that type and whose
\* start_time and end_time are the frame's own, and leaves frames, spi_enable
\* and both transaction times unchanged.
C9_UnrecognizedReportedSessionKept ==
    [][CalledOther' =>
          /\ Returned("error")'
          /\ Contains(ret'[1].data.error_info, call'[1].type)
          /\ ret'[1].start_time = call'[1].start_time
          /\ ret'[1].end_time = call'[1].end_time
          /\ UNCHANGED self]_vars

C9_Witness ==
    /\ CalledOther
    /\ Returned("error")
    /\ spi_enable
    /\ Len(frames) = 2

\* C10: no decode call raises, for result frames whose mosi and miso byte
\* strings have any length; in particular a disable that finds the transaction
\* valid finds a byte at index 0 of the concatenated mosi string.
C10_NeverRaises ==
    /\ [](raised = "")
    /\ [][(Called("disable")' /\ is_valid_transaction) => get_frame_data.mosi # <<>>]_vars

\* the latest decode call produced a diagnostic: an error frame or a printed line
Diagnosed == Returned("error") \/ printed # ""

\* C11 as stated: every error frame, and every result or disable frame that
\* arrives while no transaction is open, produces a diagnostic and leaves the
\* fields as reset leaves them.
C11_DiagnosticAndReset ==
    [][(Called("error")' \/ ((Called("result")' \/ Called("disable")') /\ ~h_open)) =>
          (Diagnosed' /\ Idle')]_vars

\* C11 as the code has it: an error frame, in any state, prints one line,
\* returns nothing and changes no field, so the transaction in progress goes on;
\* a result frame while no transaction is open produces no diagnostic at all and
\* leaves the fields reset; a disable frame while no transaction is open returns
\* an error frame and leaves the fields reset.
C11_DiagnosticsAsCoded ==
    [][/\ Called("error")' =>
             (printed' # "" /\ ret' = None /\ UNCHANGED self)
       /\ (Called("result")' /\ ~h_open) => (~Diagnosed' /\ ret' = None /\ Idle')
       /\ (Called("disable")' /\ ~h_open) => (Returned("error")' /\ Idle')]_vars

C11_Witness ==
    /\ Called("error")
    /\ printed # ""
    /\ spi_enable
    /\ Len(frames) = 1

\* C12: frames is non-empty only while spi_enable is True, and frames is empty
\* right after every decode call on an enable frame and on a disable frame.
C12_FramesOnlyWhileEnabled ==
    /\ frames # <<>> => spi_enable
    /\ (Called("enable") \/ Called("disable")) => frames = <<>>

C12_Witness ==
    /\ Called("result")
    /\ spi_enable
    /\ Len(frames) = 2
    /\ h_reopen
    /\ n_emitted > 0

\* C13: within one transaction the first result frame changes
\* transaction_start_time from None to its own start_time, every later result
\* frame leaves it unchanged, and error and unrecognized frames leave both
\* transaction times unchanged; after each result frame of the transaction
\* transaction_end_time is that frame's end_time.
C13_StartOnceEndEveryByte ==
    [][/\ (Called("result")' /\ h_open) =>
             /\ IF h_bytes = <<>>
                THEN /\ transaction_start_time = None
                     /\ transaction_start_time' = Some(call'[1].start_time)
                ELSE /\ transaction_start_time # None
                     /\ UNCHANGED transaction_start_time
             /\ transaction_end_time' = Some(call'[1].end_time)
       /\ ((Called("error")' \/ CalledOther') /\ h_open) =>
             UNCHANGED <<transaction_start_time, transaction_end_time>>]_vars

C13_Witness ==
    /\ Called("result")
    /\ Len(frames) = 2
    /\ frames[1].start_time # frames[2].start_time
    /\ transaction_start_time = Some(frames[1].start_time)
    /\ transaction_end_time = Some(frames[2].end_time)

\* the byte strings of direction dir of the frames fs, laid end to end in the
\* order of fs: frame i occupies the positions after those of frames 1..i-1
InOrder(s, fs, dir) ==
    LET off[i \in 0..Len(fs)] ==
            IF i = 0 THEN 0 ELSE off[i - 1] + Len(fs[i].data[dir])
    IN /\ Len(s) = off[Len(fs)]
       /\ \A i \in 1..Len(fs) : \A j \in 1..Len(fs[i].data[dir]) :
              s[off[i - 1] + j] = fs[i].data[dir][j]

\* C14: whenever spi_enable is True, frames is exactly the sequence of result
\* frames received since the latest enable, in arrival order, and the mosi and
\* miso strings get_frame_data builds from it are those frames' byte strings
\* laid end to end in that order.
C14_FramesAreTheBytesInOrder ==
    spi_enable =>
        /\ frames = h_bytes
        /\ InOrder(get_frame_data.mosi, h_bytes, "mosi")
        /\ InOrder(get_frame_data.miso, h_bytes, "miso")

C14_Witness ==
    /\ spi_enable
    /\ Len(frames) = 2
    /\ get_frame_data.mosi = <<128, 1>>
    /\ get_frame_data.miso = <<165, 0>>
    /\ frames[1].start_time > frames[2].start_time

\* C15: a decode call on an error frame, in any state, returns nothing and
\* leaves frames, spi_enable and both transaction times unchanged, so the
\* frames returned later are those of the input without its error frames.
C15_ErrorFrameChangesNothing ==
    [][Called("error")' =>
          /\ ret' = None
          /\ UNCHANGED self
          /\ UNCHANGED <<h_open, h_bytes, n_emitted>>]_vars

C15_Witness ==
    /\ Called("error")
    /\ ret = None
    /\ spi_enable
    /\ Len(frames) = 2
    /\ n_emitted = 1

\* C16: transaction_start_time is present exactly when transaction_end_time is
\* present and exactly when frames is non-empty, and all three are absent or
\* empty while spi_enable is False; so the message of every error frame
\* returned for a disable shows transaction_start_time as None, whether it
\* shows spi_enable as True or as False.
C16_TimesAndFramesTogether ==
    /\ (transaction_start_time # None) <=> (transaction_end_time # None)
    /\ (transaction_start_time # None) <=> (frames # <<>>)
    /\ ~spi_enable => (transaction_start_time = None /\ frames = <<>>)
    /\ (Called("disable") /\ Returned("error")) =>
           /\ Len(ret[1].data.error_info) = 5
           /\ ret[1].data.error_info[4] = "None"

C16_Witness ==
    /\ Called("disable")
    /\ Returned("error")
    /\ ret[1].data.error_info[2] = "True"
    /\ ret[1].data.error_info[4] = "None"
    /\ n_emitted = 3

\* What is left of the result frames fs when every miso byte and every mosi
\* byte but the first of fs is removed.
Redact(fs) ==
    [i \in 1..Len(fs) |->
        [start_time |-> fs[i].start_time,
         end_time |-> fs[i].end_time,
         first |-> IF i = 1 THEN Some(fs[i].data.mosi[1]) ELSE None]]

\* The value decode returns for frame f, computed from whether a transaction
\* is open and from the redacted result frames of that transaction.
ReturnFor(open, red, f) ==
    IF f.type = "disable"
    THEN IF open /\ red # <<>>
         THEN Some(AnalyzerFrame("command", red[1].start_time, red[Len(red)].end_time,
                                 [cmd |-> Get(COMMANDS, red[1].first[1], "Unknown")]))
         ELSE Some(AnalyzerFrame("error", f.start_time, f.end_time,
                                 [error_info |->
                                     <<"Invalid SPI transaction (spi_enable=",
                                       FormatBool(open),
                                       ", transaction_start_time=", "None", ")">>]))
    ELSE IF f.type \in {"enable", "result", "error"}
    THEN None
    ELSE Some(AnalyzerFrame("error", f.start_time, f.end_time,
                            [error_info |-> UnexpectedMessage(f)]))

\* C17: what every decode call returns is determined by the frame types and
\* timestamps received so far and by the first mosi byte of the transaction
\* being closed; so two inputs that differ only in miso bytes and in mosi bytes
\* of result frames that are not the first of their transaction return the
\* same frames.
C17_OnlyFirstMosiByteMatters ==
    [][ret' = ReturnFor(h_open, Redact(h_bytes), call'[1])]_vars

C17_Witness ==
    /\ Called("disable")
    /\ Returned("command")
    /\ ret[1].data.cmd = "SetStandby"
    /\ ret[1].start_time = 1
    /\ ret[1].end_time = 3

\* the opcode bytes that decode to a name other than "Unknown"
NamedOpcodes == {b \in Byte : Get(COMMANDS, b, "Unknown") # "Unknown"}

\* C18 as stated: COMMANDS has exactly 41 keys, and exactly 41 of the 256
\* opcode bytes decode to a name other than "Unknown".
C18_FortyOneCommands ==
    Returned("command") =>
        /\ Cardinality(DOMAIN COMMANDS) = 41
        /\ Cardinality(NamedOpcodes) = 41

\* C18 as the code has it: COMMANDS has exactly 40 keys, all of them bytes, and
\* exactly 40 of the 256 opcode bytes decode to a name other than "Unknown".
C18_FortyCommands ==
    Returned("command") =>
        /\ DOMAIN COMMANDS \subseteq Byte
        /\ Cardinality(DOMAIN COMMANDS) = 40
        /\ Cardinality(NamedOpcodes) = 40
        /\ (ret[1].data.cmd # "Unknown") =>
               \E b \in DOMAIN COMMANDS : COMMANDS[b] = ret[1].data.cmd

C18_Witness ==
    /\ Called("disable")
    /\ Returned("command")
    /\ ret[1].data.cmd = "ResetStats"
====
